---- MODULE Spec2Model ----
(***************************************************************************)
(* State-machine model of src/actions.py: the custom action handlers of a  *)
(* ticket-booking assistant (slot validators, payment confirmation,        *)
(* booking processor and ticket retrieval over the in-memory TICKET_DB).   *)
(*                                                                         *)
(* Python strings are modelled as tuples of one-character strings, so that *)
(* len(), lower(), the `in` substring test, split(' ') and the ordering of *)
(* strings used by list.sort are computed and not assumed.  Python's None  *)
(* is the tuple None below, which is no tuple of characters.               *)
(***************************************************************************)
EXTENDS Integers, Sequences, FiniteSets, TLC

VARIABLES
    slots,        \* tracker slots of each sender (held by the host framework)
    TICKET_DB,    \* the module-level dict: user id -> list of ticket records
    REF_DB,       \* the same bookings in a store whose lists are never reordered
    messages,     \* dispatcher.utter_message calls of the last invocation
    refMessages,  \* reply of the retrieval that sorts a copy of REF_DB's list
    returned,     \* value returned by the last invocation, as SlotSet events
    call,         \* the last invocation: callback, sender, slot value, intent
    result        \* value returned by a direct call of is_valid_station

vars == <<slots, TICKET_DB, REF_DB, messages, refMessages, returned, call, result>>

----------------------------------------------------------------------------
(* Bounds of the model *)

\* Largest number of ticket records held in the store (all users together).
MaxTickets == 3
\* Largest number of ticket records in the store of the form-filling runs.
MaxFormTickets == 1
\* Largest number of ticket records in the store of the booking runs.
MaxBookTickets == 2
\* Longest station name given to is_valid_station on its own.
MaxLen == 5

----------------------------------------------------------------------------
(* Strings *)

None == <<"None">>

\* The characters used, in code-point order.
Chars ==
    << " ", "!", "-", "0", "1", "2", "3", "4", "5", "6", "7", "8", "9", ":",
       "A", "B", "C", "D", "E", "F", "G", "H", "I", "J", "K", "L", "M",
       "N", "O", "P", "Q", "R", "S", "T", "U", "V", "W", "X", "Y", "Z",
       "a", "b", "c", "d", "e", "f", "g", "h", "i", "j", "k", "l", "m",
       "n", "o", "p", "q", "r", "s", "t", "u", "v", "w", "x", "y", "z" >>

\* ord(c), up to an order-preserving renumbering
OrdTable == [c \in {Chars[i] : i \in 1..Len(Chars)} |->
                CHOOSE i \in 1..Len(Chars) : Chars[i] = c]

Ord(c) == OrdTable[c]

IsUpper(c) == Ord(c) >= Ord("A") /\ Ord(c) <= Ord("Z")

LowerChar(c) == IF IsUpper(c) THEN Chars[Ord(c) - Ord("A") + Ord("a")] ELSE c

\* str.lower()
str_lower(s) == [i \in 1..Len(s) |-> LowerChar(s[i])]

\* needle in hay (Python's substring test)
str_in(needle, hay) ==
    \E i \in 0..(Len(hay) - Len(needle)) :
        SubSeq(hay, i + 1, i + Len(needle)) = needle

\* a < b in Python's ordering of strings (lexicographic by code point)
str_less(a, b) ==
    LET n == IF Len(a) < Len(b) THEN Len(a) ELSE Len(b)
        D == {i \in 1..n : a[i] # b[i]}
    IN  IF D = {}
        THEN Len(a) < Len(b)
        ELSE LET i == CHOOSE x \in D : \A y \in D : x <= y
             IN  Ord(a[i]) < Ord(b[i])

\* s.split(' ')[0]: the text before the first space (all of it without one)
split_first(s) ==
    IF \E i \in 1..Len(s) : s[i] = " "
    THEN SubSeq(s, 1, (CHOOSE i \in 1..Len(s) :
                          s[i] = " " /\ \A j \in 1..(i - 1) : s[j] # " ") - 1)
    ELSE s

Digit(d) == Chars[Ord("0") + d]

RECURSIVE nat_str(_)
\* str(n) of a natural number
nat_str(n) == IF n < 10 THEN <<Digit(n)>> ELSE nat_str(n \div 10) \o <<Digit(n % 10)>>

\* n as w digits with leading zeros (%02d and the like)
pad_str(n, w) == [i \in 1..w |-> Digit((n \div (10 ^ (w - i))) % 10)]

----------------------------------------------------------------------------
(* Values the handlers are invoked with *)

Users == {"u1", "u2"}

Pune == <<"P", "u", "n", "e">>
pune == <<"p", "u", "n", "e">>
Agra == <<"A", "g", "r", "a">>
NYC  == <<"N", "Y", "C">>
UPI  == <<"U", "P", "I">>
cash == <<"c", "a", "s", "h">>

NoIntent == "None"
Intents == {"affirm", "deny", NoIntent}

\* random.randint(1000000000, 9999999999) exceeds the checker's integers: a
\* drawn number n is held as hi * 10^5 + lo.  The draws are the two ends of
\* the range.
PNR_MIN == [hi |-> 10000, lo |-> 0]
PNR_MAX == [hi |-> 99999, lo |-> 99999]
randint == {PNR_MIN, PNR_MAX}

\* str(n) for such a number
pnr_str(n) == nat_str(n.hi) \o pad_str(n.lo, 5)

\* datetime.now(): seconds since 2024-01-01 00:00:00.  The readings lie around
\* midnight of the first day, so that they differ in date and in time of day;
\* the clock may repeat a reading and may step back.
ClockReadings == {86398, 86399, 86400}

FirstReading == CHOOSE t \in ClockReadings : \A r \in ClockReadings : t <= r

\* strftime("%Y-%m-%d %H:%M:%S")
strftime(t) ==
    <<"2", "0", "2", "4", "-", "0", "1", "-">> \o pad_str(1 + (t \div 86400), 2)
        \o <<" ">> \o pad_str((t % 86400) \div 3600, 2)
        \o <<":">> \o pad_str((t % 3600) \div 60, 2)
        \o <<":">> \o pad_str(t % 60, 2)

\* datetime.now().strftime(...) at each reading
booking_times == [t \in ClockReadings |-> strftime(t)]

----------------------------------------------------------------------------
(* Dispatcher messages, events, tracker, dict *)

\* One utter_message(text=...): the fixed text by name, the values
\* interpolated into it, and for the ticket list its numbered blocks.
Msg(text, args, blocks) == [text |-> text, args |-> args, blocks |-> blocks]

SlotSet(name, value) == [name |-> name, value |-> value]

EmptySlots ==
    [source |-> None, destination |-> None,
     payment_method |-> None, payment_confirmed |-> None]

\* The host stores the returned slot values in the sender's tracker.
ApplyEvents(sl, evs) ==
    [k \in DOMAIN sl |->
        IF \E i \in 1..Len(evs) : evs[i].name = k
        THEN evs[CHOOSE i \in 1..Len(evs) :
                    evs[i].name = k /\ \A j \in (i + 1)..Len(evs) : evs[j].name # k].value
        ELSE sl[k]]

\* dict.get(key, default)
dict_get(d, key, default) == IF key \in DOMAIN d THEN d[key] ELSE default

Call(op, sender_id, slot_value, intent) ==
    [op |-> op, sender_id |-> sender_id, slot_value |-> slot_value, intent |-> intent]

TotalTickets == LET RECURSIVE Sum(_)
                    Sum(S) == IF S = {} THEN 0
                              ELSE LET u == CHOOSE x \in S : TRUE
                                   IN Len(TICKET_DB[u]) + Sum(S \ {u})
                IN Sum(DOMAIN TICKET_DB)

----------------------------------------------------------------------------
(* is_valid_station and ValidateTicketBookingForm *)

\* Variant: the comparison lets a name of exactly 3 characters through.
is_valid_station_min3(station_name) == Len(station_name) >= 3

is_valid_station(station_name) == Len(station_name) > 3

\* Messages and return value of validate_source(slot_value, ...)
validate_source_messages(slot_value) ==
    IF is_valid_station(slot_value)
    THEN << >>
    ELSE << Msg("invalid_source", <<slot_value>>, << >>) >>

validate_source_return(slot_value) ==
    IF is_valid_station(slot_value)
    THEN << SlotSet("source", slot_value) >>
    ELSE << SlotSet("source", None) >>

validate_source(sender_id, slot_value) ==
    /\ call' = Call("validate_source", sender_id, slot_value, NoIntent)
    /\ messages' = validate_source_messages(slot_value)
    /\ returned' = validate_source_return(slot_value)
    /\ slots' = [slots EXCEPT ![sender_id] = ApplyEvents(@, returned')]
    /\ refMessages' = << >>
    /\ UNCHANGED <<TICKET_DB, REF_DB, result>>

\* `source and source.lower() == slot_value.lower()`
same_station(source, slot_value) ==
    /\ source # None
    /\ source # << >>
    /\ str_lower(source) = str_lower(slot_value)

\* Variant: the rejection of a destination equal to the source says nothing.
validate_destination_messages_silent(source, slot_value) ==
    IF is_valid_station(slot_value)
    THEN << >>
    ELSE << Msg("invalid_destination", <<slot_value>>, << >>) >>

validate_destination_messages(source, slot_value) ==
    IF is_valid_station(slot_value)
    THEN IF same_station(source, slot_value)
         THEN << Msg("same_station", << >>, << >>) >>
         ELSE << >>
    ELSE << Msg("invalid_destination", <<slot_value>>, << >>) >>

validate_destination_return(source, slot_value) ==
    IF is_valid_station(slot_value)
    THEN IF same_station(source, slot_value)
         THEN << SlotSet("destination", None) >>
         ELSE << SlotSet("destination", slot_value) >>
    ELSE << SlotSet("destination", None) >>

validate_destination(sender_id, slot_value) ==
    LET source == slots[sender_id].source
    IN  /\ call' = Call("validate_destination", sender_id, slot_value, NoIntent)
        /\ messages' = validate_destination_messages(source, slot_value)
        /\ returned' = validate_destination_return(source, slot_value)
        /\ slots' = [slots EXCEPT ![sender_id] = ApplyEvents(@, returned')]
        /\ refMessages' = << >>
        /\ UNCHANGED <<TICKET_DB, REF_DB, result>>

supported_methods ==
    << <<"u", "p", "i">>,
       <<"c", "a", "r", "d">>,
       <<"c", "r", "e", "d", "i", "t", " ", "c", "a", "r", "d">>,
       <<"d", "e", "b", "i", "t", " ", "c", "a", "r", "d">>,
       <<"n", "e", "t", " ", "b", "a", "n", "k", "i", "n", "g">>,
       <<"g", "o", "o", "g", "l", "e", " ", "p", "a", "y">> >>

\* Variant: the input is searched as typed, without lower().
is_supported_payment_cased(slot_value) ==
    \E m \in 1..Len(supported_methods) :
        str_in(supported_methods[m], slot_value)

\* any(method in slot_value.lower() for method in supported_methods)
is_supported_payment(slot_value) ==
    \E m \in 1..Len(supported_methods) :
        str_in(supported_methods[m], str_lower(slot_value))

validate_payment_method(sender_id, slot_value) ==
    /\ call' = Call("validate_payment_method", sender_id, slot_value, NoIntent)
    /\ IF is_supported_payment(slot_value)
       THEN /\ messages' = << >>
            /\ returned' = << SlotSet("payment_method", slot_value) >>
       ELSE /\ messages' = << Msg("unsupported_payment", << >>, << >>) >>
            /\ returned' = << SlotSet("payment_method", None) >>
    /\ slots' = [slots EXCEPT ![sender_id] = ApplyEvents(@, returned')]
    /\ refMessages' = << >>
    /\ UNCHANGED <<TICKET_DB, REF_DB, result>>

----------------------------------------------------------------------------
(* ActionConfirmPayment *)

TICKET_PRICE == 120

ActionConfirmPayment_run(sender_id) ==
    LET source == slots[sender_id].source
        destination == slots[sender_id].destination
        payment_method == slots[sender_id].payment_method
    IN  /\ call' = Call("action_confirm_payment", sender_id, None, NoIntent)
        /\ messages' = << Msg("confirm_details",
                              <<source, destination, nat_str(TICKET_PRICE), payment_method>>,
                              << >>) >>
        /\ returned' = << SlotSet("payment_confirmed", None) >>
        /\ slots' = [slots EXCEPT ![sender_id] = ApplyEvents(@, returned')]
        /\ refMessages' = << >>
        /\ UNCHANGED <<TICKET_DB, REF_DB, result>>

----------------------------------------------------------------------------
(* ActionProcessBooking *)

\* Variant: every intent but "deny" counts as a confirmation.
is_affirm_unless_deny(intent) == intent # "deny"

\* tracker.latest_message.get("intent", {}).get("name") == "affirm"
is_affirm(intent) == intent = "affirm"

Ticket(pnr_number, source, destination, payment_method, booking_time) ==
    [pnr |-> pnr_number, source |-> source, destination |-> destination,
     payment |-> payment_method, booked_on |-> booking_time, status |-> "CONFIRMED"]

\* Variant: the record is put in front of the list (insert(0, ...)).
store_ticket_front(db, user_id, ticket) ==
    LET d == IF user_id \in DOMAIN db THEN db ELSE db @@ (user_id :> << >>)
    IN  [d EXCEPT ![user_id] = <<ticket>> \o @]

\* if user_id not in TICKET_DB: TICKET_DB[user_id] = []
\* TICKET_DB[user_id].append(ticket)
store_ticket(db, user_id, ticket) ==
    LET d == IF user_id \in DOMAIN db THEN db ELSE db @@ (user_id :> << >>)
    IN  [d EXCEPT ![user_id] = Append(@, ticket)]

reset_slots ==
    << SlotSet("source", None), SlotSet("destination", None),
       SlotSet("payment_method", None), SlotSet("payment_confirmed", None) >>

\* n is the number random.randint draws, now the reading of datetime.now().
ActionProcessBooking_run(sender_id, intent, n, now) ==
    LET source == slots[sender_id].source
        destination == slots[sender_id].destination
        payment_method == slots[sender_id].payment_method
        pnr_number == pnr_str(n)
        booking_time == booking_times[now]
        ticket == Ticket(pnr_number, source, destination, payment_method, booking_time)
    IN  /\ call' = Call("action_process_booking", sender_id, None, intent)
        /\ IF is_affirm(intent)
           THEN /\ TICKET_DB' = store_ticket(TICKET_DB, sender_id, ticket)
                /\ REF_DB' = store_ticket(REF_DB, sender_id, ticket)
                /\ messages' = << Msg("booking_successful",
                                      <<pnr_number, source, destination, payment_method>>,
                                      << >>) >>
                /\ returned' = reset_slots
           ELSE /\ UNCHANGED <<TICKET_DB, REF_DB>>
                /\ messages' = << Msg("booking_cancelled", << >>, << >>) >>
                /\ returned' = reset_slots
        /\ slots' = [slots EXCEPT ![sender_id] = ApplyEvents(@, returned')]
        /\ refMessages' = << >>
        /\ UNCHANGED result

----------------------------------------------------------------------------
(* ActionRetrieveTickets *)

\* Variant: ascending order (reverse=True left out).
insert_asc(sorted, x) ==
    LET k == Cardinality({i \in 1..Len(sorted) :
                            ~ str_less(x.booked_on, sorted[i].booked_on)})
    IN  SubSeq(sorted, 1, k) \o <<x>> \o SubSeq(sorted, k + 1, Len(sorted))

\* Variant: a sort that is not stable, x goes in front of the records with
\* its own key.
insert_desc_unstable(sorted, x) ==
    LET k == Cardinality({i \in 1..Len(sorted) :
                            str_less(x.booked_on, sorted[i].booked_on)})
    IN  SubSeq(sorted, 1, k) \o <<x>> \o SubSeq(sorted, k + 1, Len(sorted))

\* Where list.sort(key=booked_on, reverse=True) puts x in a list already in
\* order: behind every record whose key is not smaller (the sort is stable,
\* also with reverse=True).
insert_desc(sorted, x) ==
    LET k == Cardinality({i \in 1..Len(sorted) :
                            ~ str_less(sorted[i].booked_on, x.booked_on)})
    IN  SubSeq(sorted, 1, k) \o <<x>> \o SubSeq(sorted, k + 1, Len(sorted))

RECURSIVE list_sort(_)
\* user_tickets.sort(key=lambda x: x["booked_on"], reverse=True)
list_sort(tickets) ==
    IF tickets = << >> THEN << >>
    ELSE insert_desc(list_sort(SubSeq(tickets, 1, Len(tickets) - 1)),
                     tickets[Len(tickets)])

\* The numbered blocks of the reply: PNR, route and date of each ticket.
ticket_blocks(user_tickets) ==
    [i \in 1..Len(user_tickets) |->
        [n |-> nat_str(i),
         pnr |-> user_tickets[i].pnr,
         source |-> user_tickets[i].source,
         destination |-> user_tickets[i].destination,
         date |-> split_first(user_tickets[i].booked_on)]]

\* The messages of a retrieval over the list user_tickets, sorted is the
\* list as the retrieval lists it.
retrieve_messages(user_tickets, sorted) ==
    IF user_tickets = << >>
    THEN << Msg("no_tickets", << >>, << >>) >>
    ELSE << Msg("ticket_list", << >>, ticket_blocks(sorted)) >>

\* Variant: the lookup is TICKET_DB.setdefault(user_id, []).
retrieve_store_setdefault(db, user_id) ==
    LET d == IF user_id \in DOMAIN db THEN db ELSE db @@ (user_id :> << >>)
    IN  IF d[user_id] = << >> THEN d ELSE [d EXCEPT ![user_id] = list_sort(@)]

\* TICKET_DB after a retrieval: user_tickets is the stored list itself, so
\* the sort reorders the store; a missing user gets no entry.
retrieve_store(db, user_id) ==
    IF dict_get(db, user_id, << >>) = << >>
    THEN db
    ELSE [db EXCEPT ![user_id] = list_sort(@)]

ActionRetrieveTickets_run(sender_id) ==
    LET user_tickets == dict_get(TICKET_DB, sender_id, << >>)
        ref_tickets == dict_get(REF_DB, sender_id, << >>)
    IN  /\ call' = Call("action_retrieve_tickets", sender_id, None, NoIntent)
        /\ TICKET_DB' = retrieve_store(TICKET_DB, sender_id)
        /\ messages' = retrieve_messages(user_tickets,
                                         dict_get(TICKET_DB', sender_id, << >>))
        /\ returned' = << >>
        /\ slots' = [slots EXCEPT ![sender_id] = ApplyEvents(@, returned')]
        /\ refMessages' = retrieve_messages(ref_tickets, list_sort(ref_tickets))
        /\ UNCHANGED <<REF_DB, result>>

----------------------------------------------------------------------------
(* Specifications *)

Init ==
    /\ slots = [u \in Users |-> EmptySlots]
    /\ TICKET_DB = << >>
    /\ REF_DB = << >>
    /\ messages = << >>
    /\ refMessages = << >>
    /\ returned = << >>
    /\ call = Call("init", "None", None, NoIntent)
    /\ result = FALSE

\* The sender whose form is filled in the runs below.
FormSender == "u1"

\* The store: bookings by two users at the clock's readings, retrievals, and
\* the other callbacks invoked with values they reject.
NextStore ==
    \/ validate_source(FormSender, NYC)
    \/ validate_destination(FormSender, NYC)
    \/ validate_payment_method(FormSender, cash)
    \/ ActionConfirmPayment_run(FormSender)
    \/ \E u \in Users, n \in randint, now \in ClockReadings :
          /\ TotalTickets < MaxTickets
          /\ ActionProcessBooking_run(u, "affirm", n, now)
    \/ \E intent \in Intents \ {"affirm"} :
          ActionProcessBooking_run(FormSender, intent, PNR_MIN, FirstReading)
    \/ \E u \in Users : ActionRetrieveTickets_run(u)

SpecStore == Init /\ [][NextStore]_vars

\* The form: one sender fills the slots in any order with station names that
\* differ in letter case only, differ altogether, or are too short.
NextForm ==
    \/ \E v \in {pune, NYC} : validate_source(FormSender, v)
    \/ \E v \in {Pune, Agra, NYC} : validate_destination(FormSender, v)
    \/ \E v \in {UPI, cash} : validate_payment_method(FormSender, v)
    \/ ActionConfirmPayment_run(FormSender)
    \/ /\ TotalTickets < MaxFormTickets
       /\ ActionProcessBooking_run(FormSender, "affirm", PNR_MIN, FirstReading)
    \/ \E intent \in Intents \ {"affirm"} :
          ActionProcessBooking_run(FormSender, intent, PNR_MIN, FirstReading)
    \/ ActionRetrieveTickets_run(FormSender)

SpecForm == Init /\ [][NextForm]_vars

\* The booking processor: two users confirm or decline, one of them with the
\* source and the payment method set or not, and with the random number at
\* either end of its range.
NextBook ==
    \/ validate_source(FormSender, Pune)
    \/ validate_payment_method(FormSender, UPI)
    \/ \E u \in Users, n \in randint :
          /\ TotalTickets < MaxBookTickets
          /\ ActionProcessBooking_run(u, "affirm", n, FirstReading)
    \/ \E u \in Users, intent \in Intents \ {"affirm"} :
          ActionProcessBooking_run(u, intent, PNR_MIN, FirstReading)

SpecBook == Init /\ [][NextBook]_vars

\* is_valid_station on its own, over every string of at most MaxLen
\* characters drawn from a space, a lower-case and an upper-case letter.
StationNames == UNION {[1..n -> {" ", "a", "B"}] : n \in 0..MaxLen}

InitStation ==
    /\ slots = [u \in Users |-> EmptySlots]
    /\ TICKET_DB = << >>
    /\ REF_DB = << >>
    /\ messages = << >>
    /\ refMessages = << >>
    /\ returned = << >>
    /\ \E station_name \in StationNames :
          call = Call("pending", "None", station_name, NoIntent)
    /\ result = FALSE

is_valid_station_call ==
    /\ call.op = "pending"
    /\ call' = [call EXCEPT !.op = "is_valid_station"]
    /\ result' = is_valid_station(call.slot_value)
    /\ UNCHANGED <<slots, TICKET_DB, REF_DB, messages, refMessages, returned>>

NextStation == is_valid_station_call

SpecStation == InitStation /\ [][NextStation]_vars

\* validate_payment_method over texts that hold a payment word, a near miss
\* or neither, in several letter cases, alone or inside a longer text.
PaymentCores ==
    { <<"u", "p", "i">>,
      <<"U", "P", "I">>,
      <<"U", "p", "i">>,
      <<"c", "a", "r", "d">>,
      <<"C", "A", "R", "D">>,
      <<"c", "r", "e", "d", "i", "t", " ", "c", "a", "r", "d">>,
      <<"C", "r", "e", "d", "i", "t", " ", "C", "a", "r", "d">>,
      <<"d", "e", "b", "i", "t", " ", "c", "a", "r", "d">>,
      <<"D", "e", "b", "i", "t", " ", "C", "a", "r", "d">>,
      <<"D", "E", "B", "I", "T", " ", "C", "A", "R", "D">>,
      <<"d", "E", "b", "I", "t", " ", "C", "a", "R", "d">>,
      <<"n", "e", "t", " ", "b", "a", "n", "k", "i", "n", "g">>,
      <<"N", "e", "t", " ", "B", "a", "n", "k", "i", "n", "g">>,
      <<"g", "o", "o", "g", "l", "e", " ", "p", "a", "y">>,
      <<"G", "o", "o", "g", "l", "e", " ", "P", "a", "y">>,
      <<"b", "i", "t", "c", "o", "i", "n">>,
      <<"g", "p", "a", "y">>,
      <<"n", "e", "t", "b", "a", "n", "k", "i", "n", "g">>,
      <<"d", "e", "b", "i", "t", "-", "c", "a", "r", "d">>,
      <<"u", "p", " ", "i">>,
      <<"c", "a", "r", " ", "d">>,
      << >> }

PaymentTexts ==
    { p \o c \o q : p \in { << >>, <<"b", "y", " ">>, <<"X">> },
                    c \in PaymentCores \cup {cash},
                    q \in { << >>, <<"!">>, <<" ", "p", "l", "s">> } }

NextPayment == \E v \in PaymentTexts : validate_payment_method(FormSender, v)

SpecPayment == Init /\ [][NextPayment]_vars

----------------------------------------------------------------------------
(* Properties *)

SlotNames == {"source", "destination", "payment_method", "payment_confirmed"}

DigitChars == {"0", "1", "2", "3", "4", "5", "6", "7", "8", "9"}

\* The returned events set all four booking slots to None and nothing else.
ResetsAllSlots(evs) ==
    /\ \A name \in SlotNames : \E i \in 1..Len(evs) : evs[i] = SlotSet(name, None)
    /\ \A i \in 1..Len(evs) : evs[i].name \in SlotNames /\ evs[i].value = None

\* new is old with exactly one record added at the end.
OneAppended(old, new) ==
    /\ Len(new) = Len(old) + 1
    /\ SubSeq(new, 1, Len(old)) = old

Perms(n) == {p \in [1..n -> 1..n] : \A i, j \in 1..n : i # j => p[i] # p[j]}

\* The clock reading a stored timestamp was formatted from.
ReadingOf(booked_on) == CHOOSE t \in ClockReadings : strftime(t) = booked_on

\* p lists the records of old most recent first.
MostRecentFirst(old, p) ==
    \A i, j \in 1..Len(old) :
        i < j => ReadingOf(old[p[i]].booked_on) >= ReadingOf(old[p[j]].booked_on)

StoredOf(db, u) == IF u \in DOMAIN db THEN db[u] ELSE << >>

\* C1: a booking confirmed with intent "affirm" appends exactly one record
\* at the end of the sender's list and changes no other user's list; the
\* record is CONFIRMED, has a PNR of 10 digits and the sender's current
\* source, destination and payment method; the returned events set all four
\* slots to None.
C1_ConfirmedBookingAppendsOne ==
    [][ (call'.op = "action_process_booking" /\ call'.intent = "affirm") =>
        LET u == call'.sender_id
            old == StoredOf(TICKET_DB, u)
            new == StoredOf(TICKET_DB', u)
            t == new[Len(new)]
        IN  /\ u \in DOMAIN TICKET_DB'
            /\ OneAppended(old, new)
            /\ \A w \in Users \ {u} :
                  /\ w \in DOMAIN TICKET_DB' <=> w \in DOMAIN TICKET_DB
                  /\ StoredOf(TICKET_DB', w) = StoredOf(TICKET_DB, w)
            /\ t.status = "CONFIRMED"
            /\ Len(t.pnr) = 10
            /\ \A i \in 1..Len(t.pnr) : t.pnr[i] \in DigitChars
            /\ t.source = slots[u].source
            /\ t.destination = slots[u].destination
            /\ t.payment = slots[u].payment_method
            /\ ResetsAllSlots(returned')
      ]_vars

\* A confirmed booking was added behind an earlier, different record of the
\* same user, with the source slot set and the largest random number drawn.
C1_Witness ==
    /\ call.op = "action_process_booking"
    /\ call.intent = "affirm"
    /\ call.sender_id \in DOMAIN TICKET_DB
    /\ LET l == TICKET_DB[call.sender_id]
       IN  /\ Len(l) = 2
           /\ l[1] # l[2]
           /\ l[2].source = Pune
           /\ l[2].destination = None
           /\ l[2].payment = UPI
           /\ l[2].pnr = pnr_str(PNR_MAX)
    /\ slots[call.sender_id].source = None

\* C2: a booking processed with any intent other than "affirm" (a missing
\* intent included) leaves TICKET_DB as it was, emits the one cancellation
\* message and returns events setting all four slots to None.
C2_DeclinedBookingStoresNothing ==
    [][ (call'.op = "action_process_booking" /\ call'.intent # "affirm") =>
        /\ TICKET_DB' = TICKET_DB
        /\ DOMAIN TICKET_DB' = DOMAIN TICKET_DB
        /\ Len(messages') = 1
        /\ messages'[1].text = "booking_cancelled"
        /\ ResetsAllSlots(returned')
      ]_vars

\* A booking was declined by a missing intent for a user without an entry,
\* while the store holds another user's record.
C2_Witness ==
    /\ call.op = "action_process_booking"
    /\ call.intent = NoIntent
    /\ call.sender_id \notin DOMAIN TICKET_DB
    /\ DOMAIN TICKET_DB # {}
    /\ messages[1].text = "booking_cancelled"

\* C3: a retrieval for a user with at least one record emits one reply whose
\* numbered blocks are that user's stored records, each once, most recent
\* booking first.
C3_RetrievalListsMostRecentFirst ==
    [][ (/\ call'.op = "action_retrieve_tickets"
         /\ StoredOf(TICKET_DB, call'.sender_id) # << >>) =>
        LET old == TICKET_DB[call'.sender_id]
        IN  /\ Len(messages') = 1
            /\ messages'[1].text = "ticket_list"
            /\ Len(messages'[1].blocks) = Len(old)
            /\ \E p \in Perms(Len(old)) :
                  /\ MostRecentFirst(old, p)
                  /\ \A i \in 1..Len(old) :
                        messages'[1].blocks[i] =
                            [n |-> nat_str(i),
                             pnr |-> old[p[i]].pnr,
                             source |-> old[p[i]].source,
                             destination |-> old[p[i]].destination,
                             date |-> SubSeq(old[p[i]].booked_on, 1, 10)]
      ]_vars

\* Three records booked at readings T1 < T2 < T3, in this order, have been
\* listed T3, T2, T1.
C3_Witness ==
    /\ call.op = "action_retrieve_tickets"
    /\ call.sender_id \in DOMAIN REF_DB
    /\ LET r == REF_DB[call.sender_id]
           b == messages[1].blocks
       IN  /\ Len(r) = 3
           /\ ReadingOf(r[1].booked_on) < ReadingOf(r[2].booked_on)
           /\ ReadingOf(r[2].booked_on) < ReadingOf(r[3].booked_on)
           /\ r[1].pnr # r[3].pnr
           /\ Len(b) = 3
           /\ \A i \in 1..3 : b[i].pnr = r[4 - i].pnr
           /\ TICKET_DB[call.sender_id] = <<r[3], r[2], r[1]>>

\* C4 as claimed: every operation leaves every user's stored list as it was
\* or with exactly one record added at the end.
C4_AppendOnly ==
    [][ \A u \in Users :
          LET old == StoredOf(TICKET_DB, u)
              new == StoredOf(TICKET_DB', u)
          IN  new = old \/ OneAppended(old, new)
      ]_vars

\* C4 as amended: every operation leaves every user's stored list as it was,
\* or (a confirmed booking by that user) with exactly one record added at
\* the end, or (a retrieval by that user) with the same records reordered
\* most recent booking first.
C4_AppendOrRetrievalReorder ==
    [][ \A u \in Users :
          LET old == StoredOf(TICKET_DB, u)
              new == StoredOf(TICKET_DB', u)
          IN  \/ new = old
              \/ /\ call'.op = "action_process_booking"
                 /\ call'.intent = "affirm"
                 /\ call'.sender_id = u
                 /\ OneAppended(old, new)
              \/ /\ call'.op = "action_retrieve_tickets"
                 /\ call'.sender_id = u
                 /\ Len(new) = Len(old)
                 /\ \E p \in Perms(Len(old)) :
                       /\ MostRecentFirst(old, p)
                       /\ \A i \in 1..Len(old) : new[i] = old[p[i]]
      ]_vars

\* A retrieval has left the stored list in another order than the bookings
\* were made in, and a later booking was added behind it.
C4_Witness ==
    /\ call.op = "action_process_booking"
    /\ call.intent = "affirm"
    /\ LET l == TICKET_DB[call.sender_id]
           r == REF_DB[call.sender_id]
       IN  /\ Len(l) = 3
           /\ l # r
           /\ l[3] = r[3]
           /\ <<l[1], l[2]>> = <<r[2], r[1]>>

\* C5: whenever a sender's source and destination slots are both set, they
\* differ when compared without regard to letter case.
C5_SourceAndDestinationDiffer ==
    \A u \in Users :
        (slots[u].source # None /\ slots[u].destination # None) =>
            str_lower(slots[u].source) # str_lower(slots[u].destination)

\* str.strip() over the characters of StationNames
str_strip(s) ==
    LET I == {i \in 1..Len(s) : s[i] # " "}
    IN  IF I = {} THEN << >>
        ELSE SubSeq(s, CHOOSE i \in I : \A j \in I : i <= j,
                       CHOOSE i \in I : \A j \in I : i >= j)

\* C6 as claimed: is_valid_station returns true exactly when the name with
\* leading and trailing whitespace removed has more than 3 characters.
C6_TrimmedLengthDecides ==
    call.op = "is_valid_station" =>
        (result <=> Len(str_strip(call.slot_value)) > 3)

\* C6 as amended: is_valid_station returns true exactly when the name as
\* given, whitespace included, has more than 3 characters.
C6_RawLengthDecides ==
    call.op = "is_valid_station" =>
        (result <=> Len(call.slot_value) > 3)

\* A name of more than 3 characters whose trimmed form has at most 3 was
\* accepted.
C6_Witness ==
    /\ call.op = "is_valid_station"
    /\ result
    /\ Len(str_strip(call.slot_value)) <= 3
    /\ str_strip(call.slot_value) # << >>

C7_Keywords ==
    { <<"u", "p", "i">>,
      <<"c", "a", "r", "d">>,
      <<"c", "r", "e", "d", "i", "t", " ", "c", "a", "r", "d">>,
      <<"d", "e", "b", "i", "t", " ", "c", "a", "r", "d">>,
      <<"n", "e", "t", " ", "b", "a", "n", "k", "i", "n", "g">>,
      <<"g", "o", "o", "g", "l", "e", " ", "p", "a", "y">> }

C7_DebitCard == <<"d", "e", "b", "i", "t", " ", "c", "a", "r", "d">>

C7_Bitcoin == <<"b", "i", "t", "c", "o", "i", "n">>

C8_EmptyRetrievalChangesNothing ==
    [][ (/\ call'.op = "action_retrieve_tickets"
         /\ StoredOf(TICKET_DB, call'.sender_id) = << >>) =>
        /\ messages' = << Msg("no_tickets", << >>, << >>) >>
        /\ returned' = << >>
        /\ DOMAIN TICKET_DB' = DOMAIN TICKET_DB
        /\ TICKET_DB' = TICKET_DB
      ]_vars

\* A user without an entry has asked for their tickets while the store
\* holds records of the other user.
C8_Witness ==
    /\ call.op = "action_retrieve_tickets"
    /\ call.sender_id \notin DOMAIN TICKET_DB
    /\ \E w \in DOMAIN TICKET_DB : Len(TICKET_DB[w]) >= 2
    /\ Len(messages) = 1
    /\ messages[1].text = "no_tickets"

Validators == {"validate_source", "validate_destination", "validate_payment_method"}

Runs == {"action_confirm_payment", "action_process_booking", "action_retrieve_tickets"}

\* C9 as claimed: every invocation of every callback emits at least one
\* message.
C9_EveryPathEmits ==
    call.op \in Validators \cup Runs => Len(messages) >= 1

\* C9 as amended: every invocation of the three run methods and every
\* rejecting branch of the three validators emits at least one message; the
\* accepting branch of a validator emits none.
C9_EmitsUnlessValidatorAccepts ==
    /\ call.op \in Runs => Len(messages) >= 1
    /\ call.op \in Validators =>
          IF returned[1].value = None
          THEN Len(messages) >= 1
          ELSE Len(messages) = 0

\* A destination equal to the source but for letter case has been rejected.
C9_Witness ==
    /\ call.op = "validate_destination"
    /\ is_valid_station(call.slot_value)
    /\ returned[1].value = None
    /\ Len(messages) = 1

IsRetrieval == call.op = "action_retrieve_tickets"

====
